---- MODULE Spec2Model ----
(***************************************************************************)
(* Model of voxel_editor.py: the orbit camera (Camera), the HUD mode       *)
(* toggle (HudManager), the edit-mode gesture (EditModeProcessor) and the  *)
(* frame loop of main().                                                   *)
(*                                                                         *)
(* The window and the renderer are collaborators.  The window is modelled  *)
(* by the input it reports in a frame (held keys, pointer position, the    *)
(* queue of RELEASE events, the HUD button); the renderer by the log of    *)
(* the calls made to it in the frame and by the answers its raycast gives. *)
(*                                                                         *)
(* Pointer coordinates are multiples of 1/PtrDen of the window, so that    *)
(* pointer differences and their squares are exact in binary floating      *)
(* point and the comparison with 2e-4 is an exact integer comparison.      *)
(***************************************************************************)
EXTENDS Integers, Sequences, FiniteSets, TLC

\* ------------------------------------------------------------------ bounds
\* the pointer visits the first NumPointers positions of PointerList
NumPointers == 3
\* grid cells the raycast can return are 1..NumCells
NumCells == 1
\* frames of consecutive still holding that the scenario tracker counts
RunCap == 3

\* -------------------------------------------------------- program constants
\* pointer coordinates are k / PtrDen (a power of two: exact in floating point)
PtrDen == 128
SCREEN_RES == <<1280, 720>>

\* the re-arm threshold 2e-4 as the fraction EpsNum / EpsDen
EpsNum == 2
EpsDen == 10000

None == <<>>
NoHit == 0
Cells == 1..NumCells
Hits == {NoHit} \cup Cells
Rays == [solid : Hits, nonsolid : Hits]

\* pointer positions, in units of 1 / PtrDen: the first two are farther apart
\* than the threshold, the third is closer than the threshold to both
PointerList == <<<<0, 0>>, <<2, 1>>, <<1, 1>>, <<3, 2>>, <<4, 2>>, <<5, 3>>>>
Min(a, b) == IF a < b THEN a ELSE b
FirstPointers(n) == {PointerList[i] : i \in 1..Min(n, Len(PointerList))}
Pointers == FirstPointers(NumPointers)

LMB == "LMB"
RMB == "RMB"
CTRL == "CTRL"
Buttons == {LMB, RMB}

MoveKeys == {"w", "a", "s", "d", "e", "q"}

VARIABLES
    \* window: the input of the current frame
    pressed,            \* keys and buttons held (win.is_pressed)
    cursor,             \* win.get_cursor_pos()
    release_events,     \* TRUE when RELEASE events are queued
    \* renderer
    calls,              \* the renderer calls made since the log was cleared
    r_camera_pos,       \* the position last given to set_camera_pos
    r_look_at,          \* the point last given to set_look_at
    \* Camera
    _camera_pos,
    _lookat_pos,
    _up,
    cam_last_mouse_pos, \* Camera._last_mouse_pos
    cam_res,            \* which half of update_camera reported a change
    \* HudManager
    in_edit_mode,
    edit_mode_changed,  \* hud_res.edit_mode_changed
    \* EditModeProcessor
    _event_handled,
    ep_last_mouse_pos,  \* EditModeProcessor._last_mouse_pos
    _mouse_moved,
    \* main
    should_reset_framebuffer,
    pc,
    frame,              \* frames shown so far
    \* history
    press,              \* per button: mutations in its current still press
    scn,                \* the still-hold / drag scenario in progress
    was_edit,           \* in_edit_mode in the previous frame
    ptr_moved,          \* the pointer is not where it was in the previous frame
    last_call           \* the previous process() call, as seen from outside

winVars == <<pressed, cursor, release_events>>
rendVars == <<calls, r_camera_pos, r_look_at>>
camVars == <<_camera_pos, _lookat_pos, _up, cam_last_mouse_pos, cam_res>>
hudVars == <<in_edit_mode, edit_mode_changed>>
editVars == <<_event_handled, ep_last_mouse_pos, _mouse_moved>>
histVars == <<press, scn, was_edit, ptr_moved, last_call>>

vars == <<winVars, rendVars, camVars, hudVars, editVars,
          should_reset_framebuffer, pc, frame, histVars>>

\* ------------------------------------------------------------- vector math
Sub2(p, q) == <<p[1] - q[1], p[2] - q[2]>>
Dot2(p, q) == p[1] * q[1] + p[2] * q[2]
\* squared pointer distance, in units of 1 / PtrDen^2
DistSq(p, q) == Dot2(Sub2(p, q), Sub2(p, q))

\* mov_delta > 2e-4, for mov_delta = d2 / PtrDen^2
ExceedsEps(d2) == d2 * EpsDen > EpsNum * PtrDen * PtrDen

\* int(mouse_pos[i] * SCREEN_RES[i]) for i in range(2)
ScreenSpace(p) == <<(p[1] * SCREEN_RES[1]) \div PtrDen,
                    (p[2] * SCREEN_RES[2]) \div PtrDen>>

\* ------------------------------------------------------- fixed-point reals
\* camera coordinates are multiples of 1 / Unit
Unit == 10000

Abs(a) == IF a < 0 THEN -a ELSE a
\* a / b rounded to the nearest integer, b > 0
Rnd(a, b) == IF a >= 0 THEN (2 * a + b) \div (2 * b)
                       ELSE -((2 * (-a) + b) \div (2 * b))

RECURSIVE SqrtBetween(_, _, _)
SqrtBetween(n, lo, hi) ==
    IF lo >= hi THEN lo
    ELSE LET mid == (lo + hi + 1) \div 2
         IN  IF mid * mid <= n THEN SqrtBetween(n, mid, hi)
                               ELSE SqrtBetween(n, lo, mid - 1)
\* the integer square root of n, 0 <= n < 2^31
ISqrt(n) == SqrtBetween(n, 0, 46340)

Add3(u, v) == <<u[1] + v[1], u[2] + v[2], u[3] + v[3]>>
Sub3(u, v) == <<u[1] - v[1], u[2] - v[2], u[3] - v[3]>>
Neg3(u) == <<-u[1], -u[2], -u[3]>>
\* np.dot and np.cross of two vectors in units of 1 / Unit
Dot3(u, v) == Rnd(u[1] * v[1] + u[2] * v[2] + u[3] * v[3], Unit)
Cross3(u, v) == <<Rnd(u[2] * v[3] - u[3] * v[2], Unit),
                  Rnd(u[3] * v[1] - u[1] * v[3], Unit),
                  Rnd(u[1] * v[2] - u[2] * v[1], Unit)>>

\* v / np.sqrt(np.sum(v**2)); a zero vector has no direction (nan in numpy)
np_normalize(v) ==
    LET norm == ISqrt(v[1] * v[1] + v[2] * v[2] + v[3] * v[3])
    IN  IF norm = 0 THEN <<0, 0, 0>>
        ELSE <<Rnd(v[1] * Unit, norm), Rnd(v[2] * Unit, norm),
               Rnd(v[3] * Unit, norm)>>

\* math.cos(theta / 2) and math.sin(theta / 2) for theta = num / PtrDen
\* radians, by their Taylor polynomials (|theta| is far below 1)
CosHalf(num) == Unit - Rnd(Unit * num * num, 8 * PtrDen * PtrDen)
SinHalf(num) == Rnd(Unit * num, 2 * PtrDen)
                - Rnd(Unit * num * num * num, 48 * PtrDen * PtrDen * PtrDen)

\* the product x * y of two fixed-point numbers
Mul(x, y) == Rnd(x * y, Unit)

\* np_rotate_matrix(axis, theta), theta = num / PtrDen: the 4x4 matrix as a
\* tuple of rows
np_rotate_matrix(axis, num) ==
    LET ax == np_normalize(axis)
        a == CosHalf(num)
        b == Mul(-ax[1], SinHalf(num))
        c == Mul(-ax[2], SinHalf(num))
        d == Mul(-ax[3], SinHalf(num))
        aa == Mul(a, a)
        bb == Mul(b, b)
        cc == Mul(c, c)
        dd == Mul(d, d)
        bc == Mul(b, c)
        ad == Mul(a, d)
        ac == Mul(a, c)
        ab == Mul(a, b)
        bd == Mul(b, d)
        cd == Mul(c, d)
    IN  << <<aa + bb - cc - dd, 2 * (bc + ad), 2 * (bd - ac), 0>>,
           <<2 * (bc - ad), aa + cc - bb - dd, 2 * (cd + ab), 0>>,
           <<2 * (bd + ac), 2 * (cd - ab), aa + dd - bb - cc, 0>>,
           <<0, 0, 0, Unit>> >>

\* np.matmul of two 4x4 matrices, and of a 4x4 matrix and a 4-vector
MatMul(m, n) ==
    [i \in 1..4 |-> [j \in 1..4 |->
        Rnd(m[i][1] * n[1][j] + m[i][2] * n[2][j]
            + m[i][3] * n[3][j] + m[i][4] * n[4][j], Unit)]]
MatVec(m, v) ==
    [i \in 1..4 |->
        Rnd(m[i][1] * v[1] + m[i][2] * v[2] + m[i][3] * v[3] + m[i][4] * v[4],
            Unit)]

\* ------------------------------------------------------------ renderer log
Call(op, px, solid, ijk) == [op |-> op, px |-> px, solid |-> solid, ijk |-> ijk]
Raycast(px, solid) == Call("raycast_voxel_grid", px, solid, NoHit)
AddVoxel(ijk) == Call("add_voxel", None, FALSE, ijk)
DeleteVoxel(ijk) == Call("delete_voxel", None, FALSE, ijk)

\* the answer of renderer.raycast_voxel_grid(mouse_pos_ss, solid), when the
\* renderer's answers in this frame are `rays`
raycast_voxel_grid(rays, px, solid) == IF solid THEN rays.solid ELSE rays.nonsolid

CountOp(log, op) == Cardinality({i \in 1..Len(log) : log[i].op = op})
Mutations(log) == CountOp(log, "add_voxel") + CountOp(log, "delete_voxel")

\* ------------------------------------------------------- EditModeProcessor
\* a faulty variant of ReadyEdit: the add is not latched in _event_handled
ReadyEditNoLatch(rays, mouse_pos_ss) ==
    LET ijk == raycast_voxel_grid(rays, mouse_pos_ss, TRUE)
        first == <<Raycast(mouse_pos_ss, TRUE)>>
    IN  IF LMB \in pressed
        THEN LET ijk2 == raycast_voxel_grid(rays, mouse_pos_ss, FALSE)
                 both == Append(first, Raycast(mouse_pos_ss, FALSE))
             IN  IF ijk2 # NoHit
                 THEN [log |-> Append(both, AddVoxel(ijk2)), handled |-> FALSE]
                 ELSE [log |-> both, handled |-> FALSE]
        ELSE IF RMB \in pressed /\ ijk # NoHit
             THEN [log |-> Append(first, DeleteVoxel(ijk)), handled |-> TRUE]
             ELSE [log |-> first, handled |-> FALSE]

\* a faulty variant of ReadyEdit: "if" in the place of "elif", so that a left
\* press whose raycast misses falls through to the delete path
ReadyEditFallThrough(rays, mouse_pos_ss) ==
    LET ijk == raycast_voxel_grid(rays, mouse_pos_ss, TRUE)
        first == <<Raycast(mouse_pos_ss, TRUE)>>
        ijk2 == raycast_voxel_grid(rays, mouse_pos_ss, FALSE)
        both == Append(first, Raycast(mouse_pos_ss, FALSE))
    IN  IF LMB \in pressed /\ ijk2 # NoHit
        THEN [log |-> Append(both, AddVoxel(ijk2)), handled |-> TRUE]
        ELSE IF RMB \in pressed /\ ijk # NoHit
             THEN [log |-> Append(IF LMB \in pressed THEN both ELSE first,
                                  DeleteVoxel(ijk)),
                   handled |-> TRUE]
             ELSE [log |-> IF LMB \in pressed THEN both ELSE first,
                   handled |-> FALSE]

\* a faulty variant of ReadyEdit: a press whose raycast misses is latched too
ReadyEditLatchOnMiss(rays, mouse_pos_ss) ==
    LET ijk == raycast_voxel_grid(rays, mouse_pos_ss, TRUE)
        first == <<Raycast(mouse_pos_ss, TRUE)>>
    IN  IF LMB \in pressed
        THEN LET ijk2 == raycast_voxel_grid(rays, mouse_pos_ss, FALSE)
                 both == Append(first, Raycast(mouse_pos_ss, FALSE))
             IN  IF ijk2 # NoHit
                 THEN [log |-> Append(both, AddVoxel(ijk2)), handled |-> TRUE]
                 ELSE [log |-> both, handled |-> TRUE]
        ELSE IF RMB \in pressed
             THEN IF ijk # NoHit
                  THEN [log |-> Append(first, DeleteVoxel(ijk)), handled |-> TRUE]
                  ELSE [log |-> first, handled |-> TRUE]
             ELSE [log |-> first, handled |-> FALSE]

\* what the Ready branch of process() does when the mouse is not reserved
\* for the camera: the renderer calls it makes and whether it handled an event
ReadyEdit(rays, mouse_pos_ss) ==
    LET ijk == raycast_voxel_grid(rays, mouse_pos_ss, TRUE)
        first == <<Raycast(mouse_pos_ss, TRUE)>>
    IN  IF LMB \in pressed
        THEN LET ijk2 == raycast_voxel_grid(rays, mouse_pos_ss, FALSE)
                 both == Append(first, Raycast(mouse_pos_ss, FALSE))
             IN  IF ijk2 # NoHit
                 THEN [log |-> Append(both, AddVoxel(ijk2)), handled |-> TRUE]
                 ELSE [log |-> both, handled |-> FALSE]
        ELSE IF RMB \in pressed /\ ijk # NoHit
             THEN [log |-> Append(first, DeleteVoxel(ijk)), handled |-> TRUE]
             ELSE [log |-> first, handled |-> FALSE]

\* a faulty variant of ReadyBranch: the guard on the owner of the mouse is lost
ReadyBranchUnguarded(mouse_exclusive_owner, rays, mouse_pos_ss) ==
    ReadyEdit(rays, mouse_pos_ss)

\* the Ready branch: "if not mouse_exclusive_owner:" guards all of it, and
\* _event_handled stays False when the guard fails
ReadyBranch(mouse_exclusive_owner, rays, mouse_pos_ss) ==
    IF ~mouse_exclusive_owner
    THEN ReadyEdit(rays, mouse_pos_ss)
    ELSE [log |-> <<>>, handled |-> FALSE]

\* a faulty variant of Rearms: only a RELEASE event re-arms
RearmsOnReleaseOnly(events, mov_delta) == events

\* a faulty variant of Rearms: RELEASE events are not looked at
RearmsOnMoveOnly(events, mov_delta) == ExceedsEps(mov_delta)

\* the Held branch: win.get_events(ti.ui.RELEASE) or mov_delta > 2e-4
Rearms(events, mov_delta) == events \/ ExceedsEps(mov_delta)

\* a faulty variant of process: the Held branch keeps the hover raycast going
processHoverWhileHeld(mouse_exclusive_owner, rays) ==
    LET mouse_pos == cursor
        mov_delta == IF ep_last_mouse_pos # None
                     THEN DistSq(mouse_pos, ep_last_mouse_pos)
                     ELSE 0
    IN  /\ _mouse_moved' = (mouse_pos # ep_last_mouse_pos)
        /\ IF ~_event_handled
           THEN LET r == ReadyBranch(mouse_exclusive_owner, rays,
                                     ScreenSpace(mouse_pos))
                IN  /\ ep_last_mouse_pos' = mouse_pos
                    /\ calls' = calls \o r.log
                    /\ _event_handled' = r.handled
                    /\ UNCHANGED release_events
           ELSE /\ release_events' = FALSE
                /\ _event_handled' = ~Rearms(release_events, mov_delta)
                /\ calls' = Append(calls, Raycast(ScreenSpace(mouse_pos), TRUE))
                /\ UNCHANGED ep_last_mouse_pos

\* EditModeProcessor.process(mouse_exclusive_owner), the renderer answering
\* its raycasts with `rays`
process(mouse_exclusive_owner, rays) ==
    LET mouse_pos == cursor
        mov_delta == IF ep_last_mouse_pos # None
                     THEN DistSq(mouse_pos, ep_last_mouse_pos)
                     ELSE 0
    IN  /\ _mouse_moved' = (mouse_pos # ep_last_mouse_pos)
        /\ IF ~_event_handled
           THEN LET r == ReadyBranch(mouse_exclusive_owner, rays,
                                     ScreenSpace(mouse_pos))
                IN  /\ ep_last_mouse_pos' = mouse_pos
                    /\ calls' = calls \o r.log
                    /\ _event_handled' = r.handled
                    /\ UNCHANGED release_events
           ELSE /\ release_events' = FALSE
                /\ _event_handled' = ~Rearms(release_events, mov_delta)
                /\ UNCHANGED <<ep_last_mouse_pos, calls>>

\* ------------------------------------------------------------------ window
\* window.show() polls the input devices: the keys held in the next frame are
\* any subset of `keys`; a key that was held and no longer is queues a RELEASE
\* event, which stays queued until get_events(RELEASE) takes it
PollEvents(keys, pointers) ==
    \E p \in SUBSET keys, c \in pointers :
        /\ pressed' = p
        /\ cursor' = c
        /\ release_events' = (release_events \/ (pressed \ p) # {})

\* ----------------------------------------------------------------- history
\* a still press of a button goes on while the button stays held and the
\* pointer stays where it is
PressPoll ==
    [b \in Buttons |->
        IF b \in pressed' /\ b \in pressed /\ cursor' = cursor
        THEN press[b] ELSE 0]

\* mutations committed by a process() call count for every button held in it
PressStep(log) ==
    [b \in Buttons |->
        IF b \in pressed THEN Min(2, press[b] + Mutations(log)) ELSE press[b]]

\* a frame of the still-hold scenario: left button held, mouse not reserved
\* for the camera, no RELEASE event queued, the non-solid raycast hits a cell
ScnCond(rays) ==
    /\ LMB \in pressed
    /\ CTRL \notin pressed
    /\ ~release_events
    /\ rays.nonsolid # NoHit

ScnNone == [stage |-> "none", n |-> 0, adds |-> 0, pos |-> None,
            last |-> NoHit, want |-> NoHit]

LastAdd(log, dflt) ==
    LET idx == {i \in 1..Len(log) : log[i].op = "add_voxel"}
    IN  IF idx = {} THEN dflt
        ELSE log[CHOOSE i \in idx : \A j \in idx : j <= i].ijk

\* stage "held1": n frames held still since a Ready start;
\* stage "moved": the frame in which the pointer jumped past the threshold;
\* stage "held2": n frames held still at the new position after the jump;
\* adds: add_voxel calls in the scenario, last: the cell of the latest one,
\* want: the cell the non-solid raycast gave in the first frame of the stage
ScnStep(log, rays) ==
    LET a == CountOp(log, "add_voxel")
        more == [scn EXCEPT !.adds = Min(3, @ + a),
                            !.last = LastAdd(log, @)]
    IN  IF ~ScnCond(rays) THEN ScnNone
        ELSE IF scn.stage \in {"held1", "held2"} /\ cursor = scn.pos
        THEN [more EXCEPT !.n = Min(RunCap, @ + 1)]
        ELSE IF scn.stage = "held1" /\ ExceedsEps(DistSq(cursor, scn.pos))
        THEN [more EXCEPT !.stage = "moved", !.pos = cursor]
        ELSE IF scn.stage = "moved" /\ cursor = scn.pos
        THEN [more EXCEPT !.stage = "held2", !.n = 1, !.want = rays.nonsolid]
        ELSE IF ~_event_handled
        THEN [stage |-> "held1", n |-> 1, adds |-> a, pos |-> cursor,
              last |-> LastAdd(log, NoHit), want |-> rays.nonsolid]
        ELSE ScnNone

\* the calls a step appended to the log
NewCalls == SubSeq(calls', Len(calls) + 1, Len(calls'))

\* ------------------------------------------------------------------ Camera
UP_DIR == <<0, 1, 0>>
InitialCameraPos == <<Unit, (3 * Unit) \div 2, 2 * Unit>>
InitialLookAt == <<0, 0, 0>>

\* Camera.mouse_exclusive_owner
mouse_exclusive_owner == CTRL \in pressed

\* Camera.target_dir
target_dir == np_normalize(Sub3(_lookat_pos, _camera_pos))

\* abs(cos) > 0.999
NearPole(cos) == Abs(cos) * 1000 > 999 * Unit

_compute_left_dir(tgtdir) ==
    LET cos == Dot3(_up, tgtdir)
    IN  IF NearPole(cos) THEN <<-Unit, 0, 0>> ELSE Cross3(_up, tgtdir)

\* the pose after the rotation by the pointer delta (dx, dy)
Rotated(dx, dy) ==
    LET out_dir == Sub3(_camera_pos, _lookat_pos)
        leftdir == _compute_left_dir(np_normalize(Neg3(out_dir)))
        rotx == np_rotate_matrix(_up, dx)
        roty == np_rotate_matrix(leftdir, dy)
        out_dir_homo == <<out_dir[1], out_dir[2], out_dir[3], 0>>
        new_out_dir == MatVec(MatMul(roty, rotx), out_dir_homo)
    IN  Add3(_lookat_pos, <<new_out_dir[1], new_out_dir[2], new_out_dir[3]>>)

\* a faulty variant of _update_by_mouse: the baseline outlives the drag
_update_by_mouse_keeping ==
    IF ~mouse_exclusive_owner \/ LMB \notin pressed
    THEN [res |-> FALSE, last |-> cam_last_mouse_pos, pos |-> _camera_pos]
    ELSE LET mouse_pos == cursor
         IN  IF cam_last_mouse_pos = None
             THEN [res |-> FALSE, last |-> mouse_pos, pos |-> _camera_pos]
             ELSE LET d == Sub2(cam_last_mouse_pos, mouse_pos)
                  IN  [res |-> TRUE, last |-> mouse_pos,
                       pos |-> Rotated(d[1], d[2])]

\* Camera._update_by_mouse: what it returns, and the fields it leaves
_update_by_mouse ==
    IF ~mouse_exclusive_owner \/ LMB \notin pressed
    THEN [res |-> FALSE, last |-> None, pos |-> _camera_pos]
    ELSE LET mouse_pos == cursor
         IN  IF cam_last_mouse_pos = None
             THEN [res |-> FALSE, last |-> mouse_pos, pos |-> _camera_pos]
             ELSE LET d == Sub2(cam_last_mouse_pos, mouse_pos)
                  IN  [res |-> TRUE, last |-> mouse_pos,
                       pos |-> Rotated(d[1], d[2])]

\* the key -> direction table of _update_by_wasd
lut(tgtdir, leftdir) ==
    << <<"w", tgtdir>>,
       <<"a", leftdir>>,
       <<"s", Neg3(tgtdir)>>,
       <<"d", Neg3(leftdir)>>,
       <<"e", <<0, Unit, 0>>>>,
       <<"q", <<0, -Unit, 0>>>> >>

\* a faulty variant of FirstPressed: without the break the last held key wins
LastPressed(table) ==
    LET held == {i \in 1..Len(table) : table[i][1] \in pressed}
    IN  IF held = {} THEN None
        ELSE table[CHOOSE i \in held : \A j \in held : j <= i][2]

\* for key, d in lut: if win.is_pressed(key): dir = d; break
FirstPressed(table) ==
    LET held == {i \in 1..Len(table) : table[i][1] \in pressed}
    IN  IF held = {} THEN None
        ELSE table[CHOOSE i \in held : \A j \in held : i <= j][2]

\* np.array(dir) * 0.05
Step(dir) == <<Rnd(dir[1] * 5, 100), Rnd(dir[2] * 5, 100), Rnd(dir[3] * 5, 100)>>

\* a faulty variant of _update_by_wasd: only the position is moved
_update_by_wasd_pos_only ==
    LET tgtdir == target_dir
        leftdir == _compute_left_dir(tgtdir)
        dir == FirstPressed(lut(tgtdir, leftdir))
    IN  IF dir = None
        THEN [res |-> FALSE, pos |-> _camera_pos, look |-> _lookat_pos]
        ELSE [res |-> TRUE,
              pos |-> Add3(_camera_pos, Step(dir)),
              look |-> _lookat_pos]

\* Camera._update_by_wasd: what it returns, and the pose it leaves
_update_by_wasd ==
    LET tgtdir == target_dir
        leftdir == _compute_left_dir(tgtdir)
        dir == FirstPressed(lut(tgtdir, leftdir))
    IN  IF dir = None
        THEN [res |-> FALSE, pos |-> _camera_pos, look |-> _lookat_pos]
        ELSE [res |-> TRUE,
              pos |-> Add3(_camera_pos, Step(dir)),
              look |-> Add3(_lookat_pos, Step(dir))]

\* a faulty variant of ResOr: the translation is applied after a rotation too
ResOrBoth(m, w) ==
    IF m.res
    THEN [res |-> TRUE, by |-> "mouse", last |-> m.last,
          pos |-> m.pos, look |-> w.look]
    ELSE [res |-> w.res, by |-> IF w.res THEN "wasd" ELSE "none",
          last |-> m.last, pos |-> w.pos, look |-> w.look]

\* res = res or self._update_by_wasd(), for the answers m and w of the two
\* updates: w counts only when m reports no change
ResOr(m, w) ==
    IF m.res
    THEN [res |-> TRUE, by |-> "mouse", last |-> m.last,
          pos |-> m.pos, look |-> _lookat_pos]
    ELSE [res |-> w.res, by |-> IF w.res THEN "wasd" ELSE "none",
          last |-> m.last, pos |-> w.pos, look |-> w.look]

\* Camera.update_camera: res = self._update_by_mouse();
\* res = res or self._update_by_wasd()
update_camera == ResOr(_update_by_mouse, _update_by_wasd)

\* the call camera.update_camera() as a step of the program
ApplyUpdateCamera(u) ==
    /\ _camera_pos' = u.pos
    /\ _lookat_pos' = u.look
    /\ cam_last_mouse_pos' = u.last
    /\ cam_res' = u.by
    /\ UNCHANGED _up

CallUpdateCamera == ApplyUpdateCamera(update_camera)

\* -------------------------------------------------------------- HudManager
\* a faulty variant of HudUpdate: the status object outlives the frame
HudUpdateSticky(clicked) ==
    /\ in_edit_mode' = IF clicked THEN ~in_edit_mode ELSE in_edit_mode
    /\ edit_mode_changed' = (edit_mode_changed \/ clicked)

\* HudManager.update(): the Options button toggles the mode when clicked
HudUpdate(clicked) ==
    /\ in_edit_mode' = IF clicked THEN ~in_edit_mode ELSE in_edit_mode
    /\ edit_mode_changed' = clicked

\* ------------------------------------------- history of process() calls
\* pos: the pointer position the previous process() call read;
\* steady: the gesture has been Held since that call or an earlier one committed
\* a mutation, and in every call since then no RELEASE event was delivered and
\* the pointer was within the threshold of its position in the call before;
\* rays: the answers the renderer had for the raycasts of that call;
\* missed: the button the call acted for in Ready when its raycast gave none;
\* recovered: the call committed a mutation for a button, still held, that
\* the call before had missed for
NoButton == "none"
NoCall == [pos |-> None, steady |-> FALSE,
           rays |-> [solid |-> NoHit, nonsolid |-> NoHit],
           missed |-> NoButton, recovered |-> FALSE]

\* the button a Ready call acts for: the left one before the right one
ActingButton ==
    IF LMB \in pressed THEN LMB ELSE IF RMB \in pressed THEN RMB ELSE NoButton

\* the answer of the raycast that decides for button b
RelevantHit(rays, b) == IF b = LMB THEN rays.nonsolid ELSE rays.solid

CallStep(rays) ==
    [pos |-> cursor,
     rays |-> rays,
     missed |-> IF /\ ~_event_handled
                   /\ ~mouse_exclusive_owner
                   /\ ActingButton # NoButton
                   /\ RelevantHit(rays, ActingButton) = NoHit
                THEN ActingButton ELSE NoButton,
     recovered |-> /\ last_call.missed # NoButton
                   /\ last_call.missed = ActingButton
                   /\ Mutations(NewCalls) = 1,
     steady |-> IF ~_event_handled
                THEN _event_handled'
                ELSE /\ last_call.steady
                     /\ ~release_events
                     /\ ~ExceedsEps(DistSq(cursor, last_call.pos))]

\* ------------------------------------------------------------------- init
\* the window when the program starts: no event is queued yet
InitWindow(keys, pointers) ==
    /\ pressed \in SUBSET keys
    /\ cursor \in pointers
    /\ release_events = FALSE

\* Camera.__init__
InitCamera ==
    /\ _camera_pos = InitialCameraPos
    /\ _lookat_pos = InitialLookAt
    /\ _up = np_normalize(<<UP_DIR[1] * Unit, UP_DIR[2] * Unit, UP_DIR[3] * Unit>>)
    /\ cam_last_mouse_pos = None
    /\ cam_res = "none"

\* HudManager.__init__
InitHud ==
    /\ in_edit_mode = FALSE
    /\ edit_mode_changed = FALSE

\* EditModeProcessor.__init__
InitEdit ==
    /\ _event_handled = FALSE
    /\ ep_last_mouse_pos = None
    /\ _mouse_moved = FALSE

\* the renderer after renderer.set_camera_pos(*camera.position) in main()
InitRenderer ==
    /\ calls = <<>>
    /\ r_camera_pos = InitialCameraPos
    /\ r_look_at = None

InitHistory ==
    /\ press = [b \in Buttons |-> 0]
    /\ scn = ScnNone
    /\ was_edit = FALSE
    /\ ptr_moved = FALSE
    /\ last_call = NoCall

InitProgram(keys, pointers) ==
    /\ InitWindow(keys, pointers)
    /\ InitCamera
    /\ InitHud
    /\ InitEdit
    /\ InitRenderer
    /\ InitHistory
    /\ should_reset_framebuffer = FALSE
    /\ frame = 0

\* --------------------------------------- process() called frame after frame
EditKeys == {CTRL, LMB, RMB}

EInit ==
    /\ InitProgram({}, Pointers)
    /\ pc = "e_call"

\* edit_proc.process(camera.mouse_exclusive_owner)
ECall ==
    /\ pc = "e_call"
    /\ \E rays \in Rays :
          /\ process(mouse_exclusive_owner, rays)
          /\ scn' = ScnStep(NewCalls, rays)
          /\ last_call' = CallStep(rays)
    /\ press' = PressStep(NewCalls)
    /\ pc' = "e_poll"
    /\ UNCHANGED <<pressed, cursor, r_camera_pos, r_look_at, camVars, hudVars,
                   should_reset_framebuffer, frame, was_edit, ptr_moved>>

EPoll ==
    /\ pc = "e_poll"
    /\ PollEvents(EditKeys, Pointers)
    /\ press' = PressPoll
    /\ calls' = <<>>
    /\ pc' = "e_call"
    /\ UNCHANGED <<r_camera_pos, r_look_at, camVars, hudVars, editVars,
                   should_reset_framebuffer, frame, scn, was_edit, ptr_moved,
                   last_call>>

ENext == ECall \/ EPoll

SpecEdit == EInit /\ [][ENext]_vars

\* "while window.running" goes on frame after frame: in edit mode every frame
\* calls process() and then polls the window
SpecEditLive == SpecEdit /\ WF_vars(ECall) /\ WF_vars(EPoll)

\* --------------------------------- update_camera() called frame after frame
\* update_camera() calls after the first one
MaxCamFrames == 2
\* every set of keys may be held in the first frame; in the later frames the
\* modifier, the left button and two of the movement keys
CamKeys == {CTRL, LMB} \cup MoveKeys
LaterCamKeys == {CTRL, LMB, "w", "d"}

CInit ==
    /\ InitProgram(CamKeys, Pointers)
    /\ pc = "c_call"

CCall ==
    /\ pc = "c_call"
    /\ CallUpdateCamera
    /\ pc' = "c_poll"
    /\ UNCHANGED <<winVars, rendVars, hudVars, editVars,
                   should_reset_framebuffer, frame, histVars>>

CPoll ==
    /\ pc = "c_poll"
    /\ frame < MaxCamFrames
    /\ PollEvents(LaterCamKeys, Pointers)
    /\ frame' = frame + 1
    /\ pc' = "c_call"
    /\ UNCHANGED <<rendVars, camVars, hudVars, editVars,
                   should_reset_framebuffer, histVars>>

CNext == CCall \/ CPoll

SpecCamera == CInit /\ [][CNext]_vars

\* -------------------------------------------------------------------- main
SPP == 10
\* frames shown after the first one
MaxFrames == 2
MainKeys == {CTRL, LMB, RMB, "w"}
\* the pointer positions visited in the frame loop
NumMainPointers == 2
MainPointers == FirstPointers(NumMainPointers)

Init ==
    /\ InitProgram(MainKeys, MainPointers)
    /\ pc = "hud"

\* hud_res = hud_mgr.update(); should_reset_framebuffer = False
MainHud ==
    /\ pc = "hud"
    /\ \E clicked \in BOOLEAN : HudUpdate(clicked)
    /\ should_reset_framebuffer' = FALSE
    /\ was_edit' = in_edit_mode
    /\ pc' = "edit"
    /\ UNCHANGED <<winVars, rendVars, camVars, editVars,
                   frame, press, scn, ptr_moved, last_call>>

\* the flag main() takes from the edit processor after process()
EditFlag(handled, moved) == handled \/ moved

\* if hud_mgr.in_edit_mode: edit_proc.process(camera.mouse_exclusive_owner)
MainEdit ==
    /\ pc = "edit"
    /\ in_edit_mode
    /\ \E rays \in Rays : process(mouse_exclusive_owner, rays)
    /\ should_reset_framebuffer' = EditFlag(_event_handled', _mouse_moved')
    /\ pc' = "camera"
    /\ UNCHANGED <<pressed, cursor, r_camera_pos, r_look_at, camVars, hudVars,
                   frame, histVars>>

\* elif hud_res.edit_mode_changed: renderer.clear_cast_voxel()
MainClear ==
    /\ pc = "edit"
    /\ ~in_edit_mode
    /\ edit_mode_changed
    /\ calls' = Append(calls, Call("clear_cast_voxel", None, FALSE, NoHit))
    /\ pc' = "camera"
    /\ UNCHANGED <<winVars, r_camera_pos, r_look_at, camVars, hudVars, editVars,
                   should_reset_framebuffer, frame, histVars>>

\* neither branch is taken
MainView ==
    /\ pc = "edit"
    /\ ~in_edit_mode
    /\ ~edit_mode_changed
    /\ pc' = "camera"
    /\ UNCHANGED <<winVars, rendVars, camVars, hudVars, editVars,
                   should_reset_framebuffer, frame, histVars>>

\* a faulty variant of CameraFlag: the camera's answer overwrites the flag
CameraFlagOverwrite(flag, changed) == changed

\* the flag after "if camera.update_camera(): ... should_reset_framebuffer = True"
CameraFlag(flag, changed) == flag \/ changed

\* a faulty variant of PushCamera: the pose is pushed in view mode only
PushCameraInViewOnly(u) ==
    /\ ApplyUpdateCamera(u)
    /\ should_reset_framebuffer' = CameraFlag(should_reset_framebuffer, u.res)
    /\ IF u.res /\ ~in_edit_mode
       THEN /\ calls' = calls \o
                  <<Call("set_camera_pos", u.pos, FALSE, NoHit),
                    Call("set_look_at", u.look, FALSE, NoHit)>>
            /\ r_camera_pos' = u.pos
            /\ r_look_at' = u.look
       ELSE UNCHANGED <<calls, r_camera_pos, r_look_at>>

\* what main() does with the answer u of camera.update_camera()
PushCamera(u) ==
    /\ ApplyUpdateCamera(u)
    /\ should_reset_framebuffer' = CameraFlag(should_reset_framebuffer, u.res)
    /\ IF u.res
       THEN /\ calls' = calls \o
                  <<Call("set_camera_pos", u.pos, FALSE, NoHit),
                    Call("set_look_at", u.look, FALSE, NoHit)>>
            /\ r_camera_pos' = u.pos
            /\ r_look_at' = u.look
       ELSE UNCHANGED <<calls, r_camera_pos, r_look_at>>

\* if camera.update_camera(): push the pose to the renderer
MainCamera ==
    /\ pc = "camera"
    /\ PushCamera(update_camera)
    /\ pc' = "draw"
    /\ UNCHANGED <<winVars, hudVars, editVars, frame, histVars>>

\* if should_reset_framebuffer: renderer.reset_framebuffer()
ResetCalls(flag) ==
    IF flag THEN <<Call("reset_framebuffer", None, FALSE, NoHit)>> ELSE <<>>

\* for _ in range(SPP): renderer.accumulate(); then fetch_image
RenderCalls ==
    [i \in 1..SPP |-> Call("accumulate", None, FALSE, NoHit)]
        \o <<Call("fetch_image", None, FALSE, NoHit)>>

\* the rest of the frame up to canvas.set_image(img)
MainDraw ==
    /\ pc = "draw"
    /\ calls' = calls \o ResetCalls(should_reset_framebuffer) \o RenderCalls
    /\ pc' = "show"
    /\ UNCHANGED <<winVars, r_camera_pos, r_look_at, camVars, hudVars, editVars,
                   should_reset_framebuffer, frame, histVars>>

\* window.show(), and the next turn of "while window.running"; the log of
\* renderer calls starts anew with the frame
Show ==
    /\ pc = "show"
    /\ frame < MaxFrames
    /\ PollEvents(MainKeys, MainPointers)
    /\ calls' = <<>>
    /\ frame' = frame + 1
    /\ pc' = "hud"
    /\ UNCHANGED <<r_camera_pos, r_look_at, camVars, hudVars, editVars,
                   should_reset_framebuffer, press, scn, was_edit, last_call>>

MainShow ==
    /\ Show
    /\ UNCHANGED ptr_moved

Next ==
    \/ MainHud
    \/ MainEdit
    \/ MainClear
    \/ MainView
    \/ MainCamera
    \/ MainDraw
    \/ MainShow

Spec == Init /\ [][Next]_vars

\* the frame loop, with the history of whether the pointer moved since the
\* previous frame
MainShowMoved ==
    /\ Show
    /\ ptr_moved' = (cursor' # cursor)

NextMoved ==
    \/ MainHud
    \/ MainEdit
    \/ MainClear
    \/ MainView
    \/ MainCamera
    \/ MainDraw
    \/ MainShowMoved

SpecPointer == Init /\ [][NextMoved]_vars

\* ================================================================= claims

\* C1: within one press-and-hold episode of a mouse button during which the
\* pointer does not move past the threshold (here: does not move at all),
\* process() commits at most one add_voxel / delete_voxel call in total,
\* whatever RELEASE events are queued.
C1_OneMutationPerPress == \A b \in Buttons : press[b] <= 1

\* C2: from Ready, over N >= 1 consecutive process(False) frames with the left
\* button held, the pointer still, the non-solid raycast hitting a cell and no
\* RELEASE event delivered, exactly one add_voxel call is made, in the first
\* frame, and the gesture is Held at the end of every one of the frames.
C2_StillHoldAddsOnce ==
    scn.stage = "held1" => scn.adds = 1 /\ _event_handled

C2_Witness ==
    /\ pc = "e_poll"
    /\ scn.stage = "held1"
    /\ scn.n >= 3
    /\ scn.adds = 1

\* C3: when the pointer then jumps by more than the threshold with the button
\* still held, the gesture re-arms; held still at the new position, where the
\* non-solid raycast hits a cell, a second add_voxel is made for that cell and
\* no third one follows (exactly two in total).
C3_RearmOnDrag ==
    /\ scn.stage = "moved" => scn.adds = 1 /\ ~_event_handled
    /\ scn.stage = "held2" =>
          scn.adds = 2 /\ scn.last = scn.want /\ _event_handled

C3_Witness ==
    /\ pc = "e_poll"
    /\ scn.stage = "held2"
    /\ scn.n >= 2
    /\ scn.adds = 2
    /\ scn.last = scn.want

\* the renderer calls process() can make
EditOps == {"raycast_voxel_grid", "add_voxel", "delete_voxel"}
EditCalls(log) == {i \in 1..Len(log) : log[i].op \in EditOps}
OpCalls(log, op) == {i \in 1..Len(log) : log[i].op = op}

\* C4: with the camera-rotation modifier held, process() issues no raycast and
\* no add_voxel / delete_voxel, whatever the buttons, pointer and queued events
\* are; and no frame of the loop both commits a grid mutation and rotates the
\* camera by mouse drag.
C4_MutualExclusion ==
    /\ (pc \in {"camera", "draw", "show"} /\ CTRL \in pressed)
          => EditCalls(calls) = {}
    /\ pc \in {"draw", "show"} => ~(Mutations(calls) > 0 /\ cam_res = "mouse")

C4_Witness ==
    /\ pc = "show"
    /\ in_edit_mode
    /\ ~_event_handled
    /\ {CTRL, LMB, RMB} \subseteq pressed
    /\ cam_res = "mouse"
    /\ EditCalls(calls) = {}

\* C5: renderer.clear_cast_voxel() is called exactly once in the frame in which
\* the mode goes from edit to view, and in no other frame; and a view-mode
\* frame calls none of raycast_voxel_grid, add_voxel, delete_voxel.
C5_ModeExitCleanup ==
    /\ pc = "show" =>
          CountOp(calls, "clear_cast_voxel")
              = (IF was_edit /\ ~in_edit_mode THEN 1 ELSE 0)
    /\ pc \in {"hud", "edit"} => CountOp(calls, "clear_cast_voxel") = 0
    /\ (pc \in {"camera", "draw", "show"} /\ ~in_edit_mode)
          => EditCalls(calls) = {}

\* a view-mode frame that follows the frame in which edit mode was left
C5_Witness ==
    /\ pc = "show"
    /\ ~in_edit_mode
    /\ ~was_edit
    /\ ep_last_mouse_pos # None
    /\ CountOp(calls, "clear_cast_voxel") = 0

\* C6: whenever edit mode is entered, the gesture is Ready at the start of the
\* first process() call of the new edit-mode period.
C6_ReadyOnReentry ==
    (pc = "edit" /\ in_edit_mode /\ ~was_edit) => ~_event_handled

\* C7: in the first frame of a rotation drag (modifier and left button held,
\* Camera._last_mouse_pos unset) update_camera leaves position and look-at
\* unchanged, whatever other keys are held, and records the pointer position.
C7_DragStartKeepsPose ==
    [][(/\ pc = "c_call"
        /\ CTRL \in pressed
        /\ LMB \in pressed
        /\ cam_last_mouse_pos = None)
       => (/\ _camera_pos' = _camera_pos
           /\ _lookat_pos' = _lookat_pos
           /\ cam_last_mouse_pos' = cursor)]_vars

\* the direction of the first held key in the order w, a, s, d, e, q
PriorityDir ==
    LET tgt == np_normalize(Sub3(_lookat_pos, _camera_pos))
        left == _compute_left_dir(tgt)
    IN  IF "w" \in pressed THEN tgt
        ELSE IF "a" \in pressed THEN left
        ELSE IF "s" \in pressed THEN Neg3(tgt)
        ELSE IF "d" \in pressed THEN Neg3(left)
        ELSE IF "e" \in pressed THEN <<0, Unit, 0>>
        ELSE <<0, -Unit, 0>>

\* the frames in which update_camera gets to the translation
TranslationEvaluated ==
    ~(CTRL \in pressed /\ LMB \in pressed /\ cam_last_mouse_pos # None)

\* C8: when translation is evaluated with a non-empty set of movement keys
\* held, exactly the direction of the first held key in the order
\* w, a, s, d, e, q is applied (to position and look-at alike); with no
\* movement key held the pose is unchanged and no change is reported.
C8_TranslationPriority ==
    [][(pc = "c_call" /\ TranslationEvaluated)
       => IF pressed \cap MoveKeys = {}
          THEN /\ _camera_pos' = _camera_pos
               /\ _lookat_pos' = _lookat_pos
               /\ cam_res' = "none"
          ELSE /\ _camera_pos' = Add3(_camera_pos, Step(PriorityDir))
               /\ _lookat_pos' = Add3(_lookat_pos, Step(PriorityDir))
               /\ cam_res' = "wasd"]_vars

\* w and d held together: the camera went forward, and not to the right
C8_Witness ==
    /\ pc = "c_poll"
    /\ frame = 0
    /\ pressed = {"w", "d"}
    /\ cam_res = "wasd"
    /\ LET fwd == Step(np_normalize(Sub3(InitialLookAt, InitialCameraPos)))
       IN  /\ fwd # <<0, 0, 0>>
           /\ _camera_pos = Add3(InitialCameraPos, fwd)
           /\ _lookat_pos = Add3(InitialLookAt, fwd)

\* C9: in every edit-mode frame in which process() committed a grid mutation
\* or in which the pointer is not where it was in the previous frame, the loop
\* calls renderer.reset_framebuffer().
C9_ResetOnEditOrMove ==
    (pc = "show" /\ in_edit_mode /\ (Mutations(calls) > 0 \/ ptr_moved))
       => CountOp(calls, "reset_framebuffer") >= 1

\* C10: in every frame process() comes before update_camera(), the two flags
\* are OR-ed, and reset_framebuffer() is called exactly once when the edit flag
\* or the camera flag is set (also when both are) and not at all when neither
\* is; the reset comes before the frame's SPP accumulate() passes.
C10_OneResetPerFrame ==
    LET edit_flag == in_edit_mode /\ (_event_handled \/ _mouse_moved)
        camera_flag == cam_res # "none"
        resets == OpCalls(calls, "reset_framebuffer")
        pushes == OpCalls(calls, "set_camera_pos") \cup OpCalls(calls, "set_look_at")
        passes == OpCalls(calls, "accumulate")
    IN  /\ pc = "edit" => calls = <<>>
        /\ pc = "camera" => pushes = {} /\ resets = {} /\ passes = {}
        /\ pc = "draw" => resets = {} /\ passes = {}
        /\ pc = "show" =>
              /\ Cardinality(resets) = (IF edit_flag \/ camera_flag THEN 1 ELSE 0)
              /\ Cardinality(passes) = SPP
              /\ \A e \in EditCalls(calls), c \in pushes : e < c
              /\ \A c \in EditCalls(calls) \cup pushes, r \in resets : c < r
              /\ \A r \in resets, a \in passes : r < a

\* a frame that adds a voxel and moves the camera resets once
C10_Witness ==
    /\ pc = "show"
    /\ in_edit_mode
    /\ CountOp(calls, "add_voxel") = 1
    /\ cam_res = "wasd"
    /\ CountOp(calls, "set_camera_pos") = 1
    /\ CountOp(calls, "reset_framebuffer") = 1

\* C11: while the gesture is Held, frames without a RELEASE event in which
\* the pointer is within the threshold of its position in the previous frame
\* leave the gesture Held, however far the pointer has drifted from where the
\* mutation was committed.
C11_SmallStepsStayHeld ==
    (pc = "e_poll" /\ last_call.steady) => _event_handled

\* C12: after a process() call that is not the first one, _mouse_moved is true
\* exactly when the pointer read in the call differs from the pointer read in
\* the call before.
C12_MovedSincePreviousCall ==
    [][(pc = "e_call" /\ last_call.pos # None)
       => (_mouse_moved' = (cursor # last_call.pos))]_vars

C14_HeldCallsNothing ==
    [][(pc = "e_call" /\ _event_handled) => calls' = calls]_vars

\* a Held call re-armed on a displacement with the left button still down and
\* the mouse not reserved, and called nothing
C14_Witness ==
    /\ pc = "e_poll"
    /\ ~_event_handled
    /\ LMB \in pressed
    /\ CTRL \notin pressed
    /\ cursor # ep_last_mouse_pos
    /\ ep_last_mouse_pos # None
    /\ calls = <<>>

\* C15: a process() call makes at most one mutator call, and the gesture is
\* Held after a call that started in Ready exactly when the call made one.
\* With the left button held no delete_voxel is made, whatever the right
\* button and the raycasts say; delete_voxel is made only with the left
\* button up, the right button held and a voxel under the solid raycast.
C15_OneMutatorLeftFirst ==
    [][pc = "e_call" =>
         /\ Mutations(NewCalls) <= 1
         /\ (~_event_handled /\ _event_handled') <=> (Mutations(NewCalls) = 1)
         /\ LMB \in pressed => CountOp(NewCalls, "delete_voxel") = 0
         /\ CountOp(NewCalls, "delete_voxel") = 1
               => /\ LMB \notin pressed
                  /\ RMB \in pressed
                  /\ last_call'.rays.solid # NoHit
                  /\ NewCalls[Len(NewCalls)] = DeleteVoxel(last_call'.rays.solid)]_vars

\* both buttons held over a solid voxel with no free cell to add to: the
\* call made its two raycasts and no mutation
C15_Witness ==
    /\ pc = "e_poll"
    /\ {LMB, RMB} \subseteq pressed
    /\ CTRL \notin pressed
    /\ last_call.rays.nonsolid = NoHit
    /\ last_call.rays.solid # NoHit
    /\ Len(calls) = 2
    /\ Mutations(calls) = 0
    /\ ~_event_handled

\* C16: a Ready call for a held button whose raycast gives none makes no
\* mutator call and leaves the gesture Ready; and when the call after such a
\* miss finds the button still held, the mouse not reserved and a cell under
\* the raycast, it commits the mutation for that cell.
C16_MissKeepsReady ==
    [][pc = "e_call" =>
         /\ last_call'.missed # NoButton
               => Mutations(NewCalls) = 0 /\ ~_event_handled'
         /\ (/\ last_call.missed # NoButton
             /\ last_call.missed = ActingButton
             /\ ~mouse_exclusive_owner
             /\ RelevantHit(last_call'.rays, ActingButton) # NoHit)
               => /\ Mutations(NewCalls) = 1
                  /\ NewCalls[Len(NewCalls)] =
                        IF ActingButton = LMB
                        THEN AddVoxel(last_call'.rays.nonsolid)
                        ELSE DeleteVoxel(last_call'.rays.solid)
                  /\ _event_handled']_vars

\* a left press missed in one call and added its voxel in the next
C16_Witness ==
    /\ pc = "e_poll"
    /\ last_call.recovered
    /\ LMB \in pressed
    /\ CountOp(calls, "add_voxel") = 1
    /\ _event_handled

\* the frames in which the rotation acts: modifier and left button held and
\* a baseline pointer position recorded
RotationActs ==
    CTRL \in pressed /\ LMB \in pressed /\ cam_last_mouse_pos # None

\* C17: in a frame with the modifier and the left button held and a baseline
\* recorded, update_camera rotates the position about the look-at point,
\* reports a change and leaves the look-at point alone, whatever movement keys
\* are held and also for a zero pointer delta; in every other frame its
\* outcome is that of the key-hold translation.
C17_TranslationIffNoRotation ==
    [][pc = "c_call" =>
         IF RotationActs
         THEN /\ cam_res' = "mouse"
              /\ _lookat_pos' = _lookat_pos
              /\ _camera_pos' = Rotated(cam_last_mouse_pos[1] - cursor[1],
                                        cam_last_mouse_pos[2] - cursor[2])
         ELSE /\ cam_res' = (IF _update_by_wasd.res THEN "wasd" ELSE "none")
              /\ _lookat_pos' = _update_by_wasd.look
              /\ _camera_pos' = _update_by_wasd.pos]_vars

\* the second frame of a drag with w held and the pointer at rest: a change
\* is reported by the rotation and the look-at point has not moved
C17_Witness ==
    /\ pc = "c_poll"
    /\ frame = 1
    /\ {CTRL, LMB, "w"} \subseteq pressed
    /\ cam_res = "mouse"
    /\ _lookat_pos = InitialLookAt
    /\ _camera_pos = InitialCameraPos

\* C18: after every update_camera call _last_mouse_pos is set exactly when
\* the modifier and the left button were both held in that call, and it is
\* then the pointer of that call; a rotation is only made from a recorded
\* baseline, and a call that finds no baseline only records one.
C18_BaselineOnlyWhileDragging ==
    /\ [](pc = "c_poll" =>
            /\ cam_last_mouse_pos # None
                  <=> (CTRL \in pressed /\ LMB \in pressed)
            /\ cam_last_mouse_pos # None => cam_last_mouse_pos = cursor)
    /\ [][pc = "c_call" =>
            /\ cam_res' = "mouse"
                  => /\ cam_last_mouse_pos # None
                     /\ CTRL \in pressed /\ LMB \in pressed
            /\ cam_last_mouse_pos = None => cam_res' # "mouse"]_vars

\* a press of modifier and button in the third call, after a call that had
\* them up: the baseline is recorded and the pose is still the initial one
C18_Witness ==
    /\ pc = "c_poll"
    /\ frame = 2
    /\ pressed = {CTRL, LMB}
    /\ cam_last_mouse_pos = cursor
    /\ cam_res = "none"
    /\ _camera_pos = InitialCameraPos
    /\ _lookat_pos = InitialLookAt

\* C19: in every frame, in edit mode and in view mode, set_camera_pos and
\* set_look_at are each called once, with the camera's new position and
\* look-at point, when update_camera reported a change, and not at all when
\* it did not; the position last given to the renderer is always the
\* camera's position.
C19_PoseAlwaysPushed ==
    /\ r_camera_pos = _camera_pos
    /\ pc \in {"draw", "show"} =>
          IF cam_res # "none"
          THEN /\ \E i \in 1..(Len(calls) - 1) :
                     /\ calls[i] = Call("set_camera_pos", _camera_pos, FALSE, NoHit)
                     /\ calls[i + 1] = Call("set_look_at", _lookat_pos, FALSE, NoHit)
               /\ CountOp(calls, "set_camera_pos") = 1
               /\ CountOp(calls, "set_look_at") = 1
               /\ r_look_at = _lookat_pos
          ELSE /\ CountOp(calls, "set_camera_pos") = 0
               /\ CountOp(calls, "set_look_at") = 0

\* an edit-mode frame in which the camera went forward and was pushed
C19_Witness ==
    /\ pc = "show"
    /\ in_edit_mode
    /\ cam_res = "wasd"
    /\ _camera_pos # InitialCameraPos
    /\ r_camera_pos = _camera_pos
    /\ r_look_at = _lookat_pos
    /\ CountOp(calls, "set_look_at") = 1

\* C20: an update_camera call never changes the up vector; a translation
\* adds one vector to position and look-at, so that position - look-at is
\* what it was and stays non-zero; a rotation leaves the look-at point where
\* it is; a call that reports no change leaves position and look-at alone.
C20_FrameEffects ==
    [][pc = "c_call" =>
         /\ _up' = _up
         /\ cam_res' = "wasd" =>
               /\ Sub3(_camera_pos', _camera_pos) = Sub3(_lookat_pos', _lookat_pos)
               /\ Sub3(_camera_pos', _lookat_pos') = Sub3(_camera_pos, _lookat_pos)
               /\ _camera_pos # _lookat_pos => _camera_pos' # _lookat_pos'
         /\ cam_res' = "mouse" => _lookat_pos' = _lookat_pos
         /\ cam_res' = "none" =>
               /\ _camera_pos' = _camera_pos
               /\ _lookat_pos' = _lookat_pos]_vars

\* after a rotation and then a translation the look-at point has moved and
\* the position is as far from it as the rotation left it
C20_Witness ==
    /\ pc = "c_poll"
    /\ frame = 2
    /\ cam_res = "wasd"
    /\ _lookat_pos # InitialLookAt
    /\ Sub3(_camera_pos, _lookat_pos) # Sub3(InitialCameraPos, InitialLookAt)
    /\ _camera_pos # _lookat_pos
    /\ _up = <<0, Unit, 0>>

====
